---------------------------- MODULE Spec2Model ----------------------------
(***************************************************************************)
(* The validator launcher, validator/src/main.rs: fn main acquires the     *)
(* Python GIL, parses the command line, sets up the logger, marshals the   *)
(* parsed arguments into a PyDict, imports sawtooth_validator.server.cli   *)
(* and calls its function main with the PyDict.                            *)
(*                                                                         *)
(* One run of the process is one behaviour.  pc is the position in main;   *)
(* trace is the history of the operations main has performed; diag is what *)
(* has been written to the diagnostic stream; exitStatus is the status the *)
(* process terminated with.                                                *)
(*                                                                         *)
(* server/cli.rs (parse_args, wrap_in_pydict) and pylogger.rs              *)
(* (set_up_logger) are modules of the crate (main.rs lines 6-7) whose      *)
(* bodies are described by the design document only; what they compute and *)
(* how they fail is taken from it.  What main does with their results is   *)
(* taken from main.rs.                                                     *)
(***************************************************************************)
EXTENDS Naturals, Sequences, FiniteSets

(* Bound on the length of the raw command line. *)
MaxArgs == 4

(* ------------------------------------------------------------------ *)
(* Command line vocabulary.                                           *)
(* ------------------------------------------------------------------ *)
VerboseFlag == "-v"
EndpointFlag == "--endpoint"
EndpointValue == "tcp://127.0.0.1:4004"
UnknownFlag == "--unknown-flag"

Tokens == {VerboseFlag, EndpointFlag, EndpointValue, UnknownFlag}

RawArgs == UNION {[1..n -> Tokens] : n \in 0..MaxArgs}

(* The name of the option a value flag sets. *)
OptionName(flag) == IF flag = EndpointFlag THEN "endpoint" ELSE "none"

NoOptions == [k \in {} |-> ""]
NoArgs == [verbose |-> 0, options |-> NoOptions, parsed |-> FALSE]

(* The options with name set to value. *)
WithOption(options, name, value) ==
  [k \in (DOMAIN options) \cup {name} |-> IF k = name THEN value ELSE options[k]]

(* cli::parse_args: repeated -v is counted, --endpoint takes the next      *)
(* token as its value, anything else is a parse error naming the token.    *)
RECURSIVE ParseFrom(_, _)
ParseFrom(raw, acc) ==
  IF raw = << >>
    THEN [ok |-> TRUE, args |-> [acc EXCEPT !.parsed = TRUE], token |-> ""]
  ELSE IF Head(raw) = VerboseFlag
    THEN ParseFrom(Tail(raw), [acc EXCEPT !.verbose = @ + 1])
  ELSE IF Head(raw) = EndpointFlag /\ Len(raw) >= 2 /\ raw[2] = EndpointValue
    THEN ParseFrom(Tail(Tail(raw)),
                   [acc EXCEPT !.options =
                      WithOption(@, OptionName(Head(raw)), raw[2])])
  ELSE [ok |-> FALSE, args |-> NoArgs, token |-> Head(raw)]

Parse(raw) == ParseFrom(raw, NoArgs)

(* args.occurrences_of("verbose") *)
OccurrencesOf(a, name) == IF name = "verbose" THEN a.verbose ELSE 0

(* pylogger: the level a verbosity selects. *)
LevelWarn == 1
LevelInfo == 2
LevelDebug == 3
LevelTrace == 4
NoLevel == 0

(* A variant of DetermineLogLevel whose table ends at debug: a verbosity  *)
(* above 2 falls back to the default level.                                *)
DetermineLogLevelNoTrace(v) ==
  IF v = 0 THEN LevelWarn
  ELSE IF v = 1 THEN LevelInfo
  ELSE IF v = 2 THEN LevelDebug
  ELSE LevelWarn

DetermineLogLevel(v) ==
  IF v = 0 THEN LevelWarn
  ELSE IF v = 1 THEN LevelInfo
  ELSE IF v = 2 THEN LevelDebug
  ELSE LevelTrace

(* cli::wrap_in_pydict: the PyDict holds one item per option present in    *)
(* the parsed arguments, absent options are left out.                      *)
NoDict == [built |-> FALSE, items |-> {}]
WrapInPydict(a) ==
  [built |-> TRUE, items |-> {<<k, a.options[k]>> : k \in DOMAIN a.options}]

(* Exit statuses. *)
ExitSuccess == 0      \* main returns ()
ExitFatal == 1        \* a fatal startup error reported by a stage
ExitPanic == 101      \* the main thread panicked
ExitAbort == 134      \* the runtime could not be initialised
Running == 255        \* not an exit status: the process has not terminated

EntryModule == "sawtooth_validator.server.cli"
EntryFunction == "main"

VARIABLES
  pc,          \* position in main
  argv,        \* the raw command line of the process
  gil,         \* "none", "held", "released": the GILGuard `gil`
  acquires,    \* number of acquisitions of the GIL
  releases,    \* number of releases of the GIL
  args,        \* `args`, the parsed arguments
  verbosity,   \* `verbosity`
  logLevel,    \* the level of the process-wide logger
  logConfigs,  \* number of times the logger was configured
  pydict,      \* `pydict`
  module,      \* `cli`, the imported module ("" before the import)
  callArgs,    \* the argument tuples the entry point was called with
  loggerArgs,  \* the verbosities set_up_logger was called with
  failed,      \* the stage that failed, "none" if none did
  trace,       \* history of operations performed
  diag,        \* messages written to the diagnostic stream
  exitStatus   \* exit status of the process, Running before it terminates

vars == <<pc, argv, gil, acquires, releases, args, verbosity, logLevel,
          logConfigs, pydict, module, callArgs, loggerArgs, failed, trace,
          diag, exitStatus>>

Init ==
  /\ pc = "acquire_gil"
  /\ argv \in RawArgs
  /\ gil = "none"
  /\ acquires = 0
  /\ releases = 0
  /\ args = NoArgs
  /\ verbosity = 0
  /\ logLevel = NoLevel
  /\ logConfigs = 0
  /\ pydict = NoDict
  /\ module = ""
  /\ callArgs = << >>
  /\ loggerArgs = << >>
  /\ failed = "none"
  /\ trace = << >>
  /\ diag = << >>
  /\ exitStatus = Running

(* The GILGuard goes out of scope: PyGILState_Release. *)
DropGil ==
  /\ gil' = IF gil = "held" THEN "released" ELSE gil
  /\ releases' = IF gil = "held" THEN releases + 1 ELSE releases

(* A variant of AcquireGil in which the guard is not bound to a variable   *)
(* that lives to the end of main: it is dropped as soon as it is acquired. *)
AcquireGilDroppedAtOnce ==
  /\ pc = "acquire_gil"
  /\ pc' = "parse_args"
  /\ gil' = "released"
  /\ acquires' = acquires + 1
  /\ releases' = releases + 1
  /\ trace' = Append(trace, "acquire_gil")
  /\ UNCHANGED loggerArgs
  /\ UNCHANGED <<argv, args, verbosity, logLevel, logConfigs,
                 pydict, module, callArgs, failed, diag, exitStatus>>

(* ------------------------------------------------------------------ *)
(* line 13: let gil = Python::acquire_gil();                          *)
(* ------------------------------------------------------------------ *)
AcquireGil ==
  /\ pc = "acquire_gil"
  /\ pc' = "parse_args"
  /\ gil' = "held"
  /\ acquires' = acquires + 1
  /\ trace' = Append(trace, "acquire_gil")
  /\ UNCHANGED loggerArgs
  /\ UNCHANGED <<argv, releases, args, verbosity, logLevel, logConfigs,
                 pydict, module, callArgs, failed, diag, exitStatus>>

(* A variant of AcquireGilFail in which the failure is not fatal: main     *)
(* goes on to parse the arguments without the runtime.                     *)
AcquireGilFailIgnored ==
  /\ pc = "acquire_gil"
  /\ pc' = "parse_args"
  /\ failed' = "acquire_gil"
  /\ trace' = Append(trace, "acquire_gil")
  /\ diag' = Append(diag, "runtime unavailable")
  /\ UNCHANGED loggerArgs
  /\ UNCHANGED <<argv, gil, acquires, releases, args, verbosity, logLevel,
                 logConfigs, pydict, module, callArgs, exitStatus>>

(* acquire_gil returns a GILGuard, not a Result: when the runtime cannot   *)
(* be initialised the call does not return and the process ends there.     *)
AcquireGilFail ==
  /\ pc = "acquire_gil"
  /\ pc' = "terminated"
  /\ failed' = "acquire_gil"
  /\ trace' = Append(trace, "acquire_gil")
  /\ diag' = Append(diag, "runtime unavailable")
  /\ exitStatus' = ExitAbort
  /\ UNCHANGED loggerArgs
  /\ UNCHANGED <<argv, gil, acquires, releases, args, verbosity, logLevel,
                 logConfigs, pydict, module, callArgs>>

(* ------------------------------------------------------------------ *)
(* line 16: let args = cli::parse_args();                             *)
(* ------------------------------------------------------------------ *)
ParseArgs ==
  /\ pc = "parse_args"
  /\ Parse(argv).ok
  /\ pc' = "occurrences_of"
  /\ args' = Parse(argv).args
  /\ trace' = Append(trace, "parse_args")
  /\ UNCHANGED loggerArgs
  /\ UNCHANGED <<argv, gil, acquires, releases, verbosity, logLevel,
                 logConfigs, pydict, module, callArgs, failed, diag,
                 exitStatus>>

(* parse_args returns the matches themselves (line 18 uses them), so a     *)
(* parse error never comes back to main: it is reported and the process    *)
(* exits with a nonzero status after the runtime is released.              *)
ParseArgsFail ==
  /\ pc = "parse_args"
  /\ ~Parse(argv).ok
  /\ pc' = "terminated"
  /\ failed' = "parse_args"
  /\ trace' = Append(trace, "parse_args")
  /\ diag' = Append(diag, "argument parse error")
  /\ DropGil
  /\ exitStatus' = ExitFatal
  /\ UNCHANGED loggerArgs
  /\ UNCHANGED <<argv, acquires, args, verbosity, logLevel, logConfigs,
                 pydict, module, callArgs>>

(* ------------------------------------------------------------------ *)
(* line 18: let verbosity: u64 = args.occurrences_of("verbose");      *)
(* ------------------------------------------------------------------ *)
OccurrencesOfVerbose ==
  /\ pc = "occurrences_of"
  /\ pc' = "set_up_logger"
  /\ verbosity' = OccurrencesOf(args, "verbose")
  /\ UNCHANGED loggerArgs
  /\ UNCHANGED <<argv, gil, acquires, releases, args, logLevel, logConfigs,
                 pydict, module, callArgs, failed, trace, diag, exitStatus>>

(* A variant of SetUpLogger in which main goes on without the logger      *)
(* having been configured.                                                 *)
SetUpLoggerSkipped ==
  /\ pc = "set_up_logger"
  /\ pc' = "wrap_in_pydict"
  /\ UNCHANGED loggerArgs
  /\ UNCHANGED <<argv, gil, acquires, releases, args, verbosity, logLevel,
                 logConfigs, pydict, module, callArgs, failed, trace, diag,
                 exitStatus>>

(* ------------------------------------------------------------------ *)
(* line 20: pylogger::set_up_logger(verbosity, py);                   *)
(* ------------------------------------------------------------------ *)
SetUpLogger ==
  /\ pc = "set_up_logger"
  /\ pc' = "wrap_in_pydict"
  /\ logLevel' = DetermineLogLevel(verbosity)
  /\ logConfigs' = logConfigs + 1
  /\ loggerArgs' = Append(loggerArgs, verbosity)
  /\ trace' = Append(trace, "set_up_logger")
  /\ UNCHANGED <<argv, gil, acquires, releases, args, verbosity, pydict,
                 module, callArgs, failed, diag, exitStatus>>

(* set_up_logger returns nothing main looks at: when the logging subsystem *)
(* cannot be initialised it is a fatal startup error raised inside it.     *)
SetUpLoggerFail ==
  /\ pc = "set_up_logger"
  /\ pc' = "terminated"
  /\ failed' = "set_up_logger"
  /\ loggerArgs' = Append(loggerArgs, verbosity)
  /\ trace' = Append(trace, "set_up_logger")
  /\ diag' = Append(diag, "logger init error")
  /\ DropGil
  /\ exitStatus' = ExitFatal
  /\ UNCHANGED <<argv, acquires, args, verbosity, logLevel, logConfigs,
                 pydict, module, callArgs>>

(* ------------------------------------------------------------------ *)
(* line 22: let pydict = cli::wrap_in_pydict(py, &args)               *)
(* ------------------------------------------------------------------ *)
WrapInPydictOk ==
  /\ pc = "wrap_in_pydict"
  /\ pc' = "import"
  /\ pydict' = WrapInPydict(args)
  /\ trace' = Append(trace, "wrap_in_pydict")
  /\ UNCHANGED loggerArgs
  /\ UNCHANGED <<argv, gil, acquires, releases, args, verbosity, logLevel,
                 logConfigs, module, callArgs, failed, diag, exitStatus>>

WrapInPydictErr ==
  /\ pc = "wrap_in_pydict"
  /\ pc' = "map_err"
  /\ failed' = "wrap_in_pydict"
  /\ trace' = Append(trace, "wrap_in_pydict")
  /\ UNCHANGED loggerArgs
  /\ UNCHANGED <<argv, gil, acquires, releases, args, verbosity, logLevel,
                 logConfigs, pydict, module, callArgs, diag, exitStatus>>

(* line 23: .map_err(|err| err.print(py)) *)
MapErrPrint ==
  /\ pc = "map_err"
  /\ pc' = "unwrap"
  /\ trace' = Append(trace, "print")
  /\ diag' = Append(diag, "wrap_in_pydict error")
  /\ UNCHANGED loggerArgs
  /\ UNCHANGED <<argv, gil, acquires, releases, args, verbosity, logLevel,
                 logConfigs, pydict, module, callArgs, failed, exitStatus>>

(* A variant of Unwrap that does not stop on Err: main goes on to the      *)
(* import without a PyDict.                                                *)
UnwrapIgnoresErr ==
  /\ pc = "unwrap"
  /\ pc' = "import"
  /\ UNCHANGED loggerArgs
  /\ UNCHANGED <<argv, gil, acquires, releases, args, verbosity, logLevel,
                 logConfigs, pydict, module, callArgs, failed, trace, diag,
                 exitStatus>>

(* line 24: .unwrap() on Err(()): the main thread panics; the panic        *)
(* message is written, the stack unwinds (dropping gil) and the process    *)
(* exits with the panic status.                                            *)
Unwrap ==
  /\ pc = "unwrap"
  /\ pc' = "terminated"
  /\ trace' = Append(trace, "panic")
  /\ diag' = Append(diag, "panicked: called Result::unwrap() on an Err value")
  /\ DropGil
  /\ exitStatus' = ExitPanic
  /\ UNCHANGED loggerArgs
  /\ UNCHANGED <<argv, acquires, args, verbosity, logLevel, logConfigs,
                 pydict, module, callArgs, failed>>

(* ------------------------------------------------------------------ *)
(* line 26: match py.import("sawtooth_validator.server.cli")          *)
(* ------------------------------------------------------------------ *)
ImportOk ==
  /\ pc = "import"
  /\ pc' = "call"
  /\ module' = EntryModule
  /\ trace' = Append(trace, "import")
  /\ UNCHANGED loggerArgs
  /\ UNCHANGED <<argv, gil, acquires, releases, args, verbosity, logLevel,
                 logConfigs, pydict, callArgs, failed, diag, exitStatus>>

ImportErr ==
  /\ pc = "import"
  /\ pc' = "import_err"
  /\ failed' = "import"
  /\ trace' = Append(trace, "import")
  /\ UNCHANGED loggerArgs
  /\ UNCHANGED <<argv, gil, acquires, releases, args, verbosity, logLevel,
                 logConfigs, pydict, module, callArgs, diag, exitStatus>>

(* A variant of ImportErrPrint without the return of line 30: main falls   *)
(* through to the call.                                                    *)
ImportErrPrintNoReturn ==
  /\ pc = "import_err"
  /\ pc' = "call"
  /\ trace' = Append(trace, "print")
  /\ diag' = Append(diag, "import error")
  /\ UNCHANGED loggerArgs
  /\ UNCHANGED <<argv, gil, acquires, releases, args, verbosity, logLevel,
                 logConfigs, pydict, module, callArgs, failed, exitStatus>>

(* lines 28-31: Err(err) => { err.print(py); return; } *)
ImportErrPrint ==
  /\ pc = "import_err"
  /\ pc' = "return"
  /\ trace' = Append(trace, "print")
  /\ diag' = Append(diag, "import error")
  /\ UNCHANGED loggerArgs
  /\ UNCHANGED <<argv, gil, acquires, releases, args, verbosity, logLevel,
                 logConfigs, pydict, module, callArgs, failed, exitStatus>>

(* A variant of CallOk that calls the entry point with an empty argument   *)
(* tuple instead of (pydict,).                                             *)
CallOkNoArgument ==
  /\ pc = "call"
  /\ pc' = "return"
  /\ callArgs' = Append(callArgs, <<module, EntryFunction, << >> >>)
  /\ trace' = Append(trace, "call")
  /\ UNCHANGED loggerArgs
  /\ UNCHANGED <<argv, gil, acquires, releases, args, verbosity, logLevel,
                 logConfigs, pydict, module, failed, diag, exitStatus>>

(* ------------------------------------------------------------------ *)
(* line 34: cli.call(py, "main", (pydict,), None)                    *)
(* ------------------------------------------------------------------ *)
CallOk ==
  /\ pc = "call"
  /\ pc' = "return"
  /\ callArgs' = Append(callArgs, <<module, EntryFunction, <<pydict>>>>)
  /\ trace' = Append(trace, "call")
  /\ UNCHANGED loggerArgs
  /\ UNCHANGED <<argv, gil, acquires, releases, args, verbosity, logLevel,
                 logConfigs, pydict, module, failed, diag, exitStatus>>

CallErr ==
  /\ pc = "call"
  /\ pc' = "call_err"
  /\ callArgs' = Append(callArgs, <<module, EntryFunction, <<pydict>>>>)
  /\ failed' = "call"
  /\ trace' = Append(trace, "call")
  /\ UNCHANGED loggerArgs
  /\ UNCHANGED <<argv, gil, acquires, releases, args, verbosity, logLevel,
                 logConfigs, pydict, module, diag, exitStatus>>

(* A variant of CallErrPrint that drops the error without printing it. *)
CallErrSwallowed ==
  /\ pc = "call_err"
  /\ pc' = "return"
  /\ UNCHANGED loggerArgs
  /\ UNCHANGED <<argv, gil, acquires, releases, args, verbosity, logLevel,
                 logConfigs, pydict, module, callArgs, failed, trace, diag,
                 exitStatus>>

(* A variant of CallErrPrint that calls the entry point again. *)
CallErrRetry ==
  /\ pc = "call_err"
  /\ pc' = IF Len(callArgs) < 2 THEN "call" ELSE "return"
  /\ trace' = Append(trace, "print")
  /\ diag' = Append(diag, "call error")
  /\ UNCHANGED loggerArgs
  /\ UNCHANGED <<argv, gil, acquires, releases, args, verbosity, logLevel,
                 logConfigs, pydict, module, callArgs, failed, exitStatus>>

(* A variant of CallErrPrint that never leaves the error branch: main      *)
(* spins there instead of printing and returning.                          *)
CallErrSpins ==
  /\ pc = "call_err"
  /\ UNCHANGED vars

(* lines 34-36: if let Err(err) = ... { err.print(py); } *)
CallErrPrint ==
  /\ pc = "call_err"
  /\ pc' = "return"
  /\ trace' = Append(trace, "print")
  /\ diag' = Append(diag, "call error")
  /\ UNCHANGED loggerArgs
  /\ UNCHANGED <<argv, gil, acquires, releases, args, verbosity, logLevel,
                 logConfigs, pydict, module, callArgs, failed, exitStatus>>

(* A variant of ReturnMain in which the guard is leaked, not dropped. *)
ReturnMainLeaksGil ==
  /\ pc = "return"
  /\ pc' = "terminated"
  /\ exitStatus' = ExitSuccess
  /\ UNCHANGED loggerArgs
  /\ UNCHANGED <<argv, gil, acquires, releases, args, verbosity, logLevel,
                 logConfigs, pydict, module, callArgs, failed, trace, diag>>

(* lines 30 and 37: main returns (); gil goes out of scope and the process *)
(* exits with the status of a main that returned.                          *)
ReturnMain ==
  /\ pc = "return"
  /\ pc' = "terminated"
  /\ DropGil
  /\ exitStatus' = ExitSuccess
  /\ UNCHANGED loggerArgs
  /\ UNCHANGED <<argv, acquires, args, verbosity, logLevel, logConfigs,
                 pydict, module, callArgs, failed, trace, diag>>

Next ==
  \/ AcquireGil
  \/ AcquireGilFail
  \/ ParseArgs
  \/ ParseArgsFail
  \/ OccurrencesOfVerbose
  \/ SetUpLogger
  \/ SetUpLoggerFail
  \/ WrapInPydictOk
  \/ WrapInPydictErr
  \/ MapErrPrint
  \/ Unwrap
  \/ ImportOk
  \/ ImportErr
  \/ ImportErrPrint
  \/ CallOk
  \/ CallErr
  \/ CallErrPrint
  \/ ReturnMain

Spec == Init /\ [][Next]_vars

(* main runs on one thread and every step it takes is a call that returns  *)
(* or a statement of its own: a step that can be taken is taken.           *)
FairSpec == Spec /\ WF_vars(Next)

(* ------------------------------------------------------------------ *)
(* Histories.                                                         *)
(* ------------------------------------------------------------------ *)
StageOrder ==
  <<"acquire_gil", "parse_args", "set_up_logger", "wrap_in_pydict",
    "import", "call">>

StageNames == {StageOrder[i] : i \in DOMAIN StageOrder}

IsStage(e) == e \in StageNames

(* The stages of main that have run, in the order they ran. *)
Stages == SelectSeq(trace, IsStage)

Occurs(e, s) == \E i \in DOMAIN s : s[i] = e

Count(e, s) == Cardinality({i \in DOMAIN s : s[i] = e})

IsPrefix(s, t) == Len(s) <= Len(t) /\ \A i \in DOMAIN s : s[i] = t[i]

(* What follows the last occurrence of e in s (s itself if e is not in s). *)
After(e, s) ==
  LET at == {i \in DOMAIN s : s[i] = e}
      last == IF at = {} THEN 0 ELSE CHOOSE i \in at : \A j \in at : j <= i
  IN  SubSeq(s, last + 1, Len(s))

Terminated == pc = "terminated"

(* ------------------------------------------------------------------ *)
(* C1: in every run where the call of the entry-point function main   *)
(* returns an error, the process terminates with a nonzero exit       *)
(* status.                                                            *)
(* ------------------------------------------------------------------ *)
C1_CallErrorExitsNonzero ==
  (Terminated /\ failed = "call") => exitStatus # ExitSuccess

(* ------------------------------------------------------------------ *)
(* C2: in every run where importing sawtooth_validator.server.cli     *)
(* fails, the process terminates with a nonzero exit status.          *)
(* ------------------------------------------------------------------ *)
C2_ImportErrorExitsNonzero ==
  (Terminated /\ failed = "import") => exitStatus # ExitSuccess

(* ------------------------------------------------------------------ *)
(* C3: in every run where the import fails, the entry point is never  *)
(* invoked afterwards: the error is printed and the process           *)
(* terminates with no call into the module and no runtime operation   *)
(* after the import other than the print of that error.               *)
(* ------------------------------------------------------------------ *)
C3_ImportFailureNoCall ==
  failed = "import" =>
    /\ callArgs = << >>
    /\ ~Occurs("call", trace)
    /\ module = ""
    /\ After("import", trace) \in {<< >>, <<"print">>}
    /\ pc \in {"return", "terminated"} =>
         /\ After("import", trace) = <<"print">>
         /\ diag = <<"import error">>

C3_Witness ==
  /\ Terminated
  /\ failed = "import"
  /\ After("import", trace) = <<"print">>

(* ------------------------------------------------------------------ *)
(* C4: if a stage of main fails (argument parsing, logger set-up,     *)
(* marshalling, import) no later stage runs in that run; when         *)
(* wrap_in_pydict returns an error neither the import nor the call is *)
(* performed.                                                         *)
(* ------------------------------------------------------------------ *)
C4_NoStageAfterFailure ==
  /\ failed \in {"parse_args", "set_up_logger", "wrap_in_pydict", "import"} =>
       /\ Stages # << >>
       /\ Stages[Len(Stages)] = failed
       /\ Count(failed, Stages) = 1
  /\ failed = "wrap_in_pydict" =>
       /\ ~Occurs("import", trace)
       /\ ~Occurs("call", trace)
       /\ module = ""
       /\ callArgs = << >>

C4_Witness ==
  /\ Terminated
  /\ failed = "wrap_in_pydict"
  /\ Stages = SubSeq(StageOrder, 1, 4)

(* ------------------------------------------------------------------ *)
(* C5: the GIL guard is acquired exactly once and released exactly    *)
(* once on every exit path (normal return, early return after an      *)
(* import failure, termination after a marshalling failure or an      *)
(* argument-parse failure); there is never more than one live handle. *)
(* A run in which the acquisition itself fails has no handle.         *)
(* ------------------------------------------------------------------ *)
C5_GilOnceAcquiredOnceReleased ==
  /\ acquires <= 1
  /\ releases <= acquires
  /\ (gil = "held") <=> (acquires = releases + 1)
  /\ (pc # "acquire_gil" /\ failed # "acquire_gil") => acquires = 1
  /\ (Terminated /\ failed # "acquire_gil") =>
       /\ acquires = 1
       /\ releases = 1
       /\ gil = "released"
  /\ ~Terminated => releases = 0

C5_Witness ==
  /\ Terminated
  /\ exitStatus = ExitPanic
  /\ acquires = 1
  /\ releases = 1

(* ------------------------------------------------------------------ *)
(* C6: the stages run in the fixed order acquisition, parsing, logger *)
(* configuration, marshalling, module resolution, invocation; each    *)
(* runs at most once, none is retried after a failure, and none runs  *)
(* before all its predecessors have completed successfully.           *)
(* ------------------------------------------------------------------ *)
C6_StagesInFixedOrder ==
  /\ IsPrefix(Stages, StageOrder)
  /\ \A i \in DOMAIN Stages :
       i < Len(Stages) => failed # Stages[i]

C6_Witness ==
  /\ Terminated
  /\ Stages = StageOrder
  /\ failed = "call"

(* ------------------------------------------------------------------ *)
(* C7: in every run where the call of the entry point returns an      *)
(* error, that error is printed to the diagnostic stream before the   *)
(* process terminates.                                                *)
(* ------------------------------------------------------------------ *)
C7_CallErrorPrinted ==
  (failed = "call" /\ pc \in {"return", "terminated"}) =>
    /\ After("call", trace) = <<"print">>
    /\ Occurs("call error", diag)

C7_Witness ==
  /\ Terminated
  /\ failed = "call"
  /\ diag = <<"call error">>

(* ------------------------------------------------------------------ *)
(* C8: when all stages succeed and the entry point returns without    *)
(* error the process terminates with exit status 0, and exit status 0 *)
(* is produced only on such runs.                                     *)
(* ------------------------------------------------------------------ *)
C8_ExitZeroIffSuccess ==
  Terminated => (exitStatus = ExitSuccess <=> failed = "none")

(* ------------------------------------------------------------------ *)
(* C9: if the acquisition of the runtime handle fails, argument       *)
(* parsing, logger configuration, marshalling and dispatch never      *)
(* occur in that run: none of their effects is there.                 *)
(* ------------------------------------------------------------------ *)
C9_NothingAfterFailedAcquire ==
  failed = "acquire_gil" =>
    /\ Terminated
    /\ trace = <<"acquire_gil">>
    /\ args = NoArgs
    /\ logConfigs = 0
    /\ logLevel = NoLevel
    /\ pydict = NoDict
    /\ module = ""
    /\ callArgs = << >>

C9_Witness ==
  /\ Terminated
  /\ failed = "acquire_gil"
  /\ exitStatus = ExitAbort

(* ------------------------------------------------------------------ *)
(* C10: the process-wide logger is configured exactly once in every   *)
(* run that reaches marshalling, module resolution or dispatch, the   *)
(* configuration happens before any of those stages, and the logger   *)
(* is never configured again in the run.                              *)
(* ------------------------------------------------------------------ *)
C10_LoggerConfiguredOnce ==
  /\ logConfigs <= 1
  /\ Count("set_up_logger", trace) <= 1
  /\ \A i \in DOMAIN trace :
       trace[i] \in {"wrap_in_pydict", "import", "call"} =>
         /\ logConfigs = 1
         /\ logLevel # NoLevel
         /\ \E j \in 1..(i - 1) : trace[j] = "set_up_logger"

C10_Witness ==
  /\ Terminated
  /\ Occurs("call", trace)
  /\ logConfigs = 1
  /\ failed = "none"

(* ------------------------------------------------------------------ *)
(* C11: every failure of a run produces exactly one diagnostic        *)
(* message: on each failure path of main (marshalling failure, import *)
(* failure, entry-point call failure) exactly one message is written  *)
(* to the diagnostic stream, never zero and never more than one.      *)
(* ------------------------------------------------------------------ *)
C11_OneDiagnosticPerFailure ==
  (Terminated /\ failed \in {"wrap_in_pydict", "import", "call"}) =>
    Len(diag) = 1

(* ------------------------------------------------------------------ *)
(* C12: the entry point is the fixed pair (module                     *)
(* sawtooth_validator.server.cli, function main); it is invoked with  *)
(* exactly one argument, the configuration object wrap_in_pydict      *)
(* returned for the arguments parsed in this run; the verbosity given *)
(* to the logger is the occurrence count of the verbose flag in those *)
(* same parsed arguments.                                             *)
(* ------------------------------------------------------------------ *)
C12_EntryPointAndArguments ==
  /\ \A i \in DOMAIN callArgs :
       /\ callArgs[i][1] = "sawtooth_validator.server.cli"
       /\ callArgs[i][2] = "main"
       /\ Len(callArgs[i][3]) = 1
       /\ Parse(argv).ok
       /\ args = Parse(argv).args
       /\ callArgs[i][3][1] = WrapInPydict(Parse(argv).args)
       /\ callArgs[i][3][1].built
  /\ \A i \in DOMAIN loggerArgs :
       /\ Parse(argv).ok
       /\ loggerArgs[i] = Parse(argv).args.verbose
       /\ loggerArgs[i] = Count(VerboseFlag, argv)

C12_Witness ==
  /\ Terminated
  /\ failed = "none"
  /\ Len(callArgs) = 1
  /\ <<"endpoint", EndpointValue>> \in callArgs[1][3][1].items
  /\ loggerArgs = <<2>>

(* ------------------------------------------------------------------ *)
(* C13: for every verbosity count v >= 0 the logger configuration     *)
(* selects exactly one level by the table 0 -> warning, 1 -> info,    *)
(* 2 -> debug, >= 3 -> trace, and the mapping is monotonic            *)
(* non-decreasing in v: a higher v never yields a quieter level.      *)
(* ------------------------------------------------------------------ *)
C13_LevelTableMonotonic ==
  /\ logConfigs = 1 =>
       /\ loggerArgs = <<verbosity>>
       /\ logLevel \in {LevelWarn, LevelInfo, LevelDebug, LevelTrace}
       /\ verbosity = 0 => logLevel = LevelWarn
       /\ verbosity = 1 => logLevel = LevelInfo
       /\ verbosity = 2 => logLevel = LevelDebug
       /\ verbosity >= 3 => logLevel = LevelTrace
  /\ LevelWarn < LevelInfo /\ LevelInfo < LevelDebug /\ LevelDebug < LevelTrace
  /\ \A v \in 0..(MaxArgs + 1) : \A w \in v..(MaxArgs + 1) :
       DetermineLogLevel(v) <= DetermineLogLevel(w)

C13_Witness ==
  /\ logConfigs = 1
  /\ verbosity = 4
  /\ logLevel = LevelTrace

(* The operations main performs on the embedded runtime. *)
RuntimeOps == {"set_up_logger", "wrap_in_pydict", "import", "call", "print"}

(* ------------------------------------------------------------------ *)
(* C14: every operation main performs on the embedded runtime (logger *)
(* set-up, wrap_in_pydict, module import, entry-point call, every     *)
(* err.print) happens while the runtime handle acquired at the start  *)
(* of main is held: none before the acquisition, none after the       *)
(* release.                                                           *)
(* ------------------------------------------------------------------ *)
C14_RuntimeOpsUnderGil ==
  [][(Len(trace') > Len(trace) /\ trace'[Len(trace')] \in RuntimeOps) =>
       /\ gil = "held"
       /\ acquires = 1
       /\ releases = 0
       /\ trace # << >>
       /\ trace[1] = "acquire_gil"]_vars

C14_Witness ==
  /\ Terminated
  /\ gil = "released"
  /\ \A op \in RuntimeOps : Occurs(op, trace)

(* ------------------------------------------------------------------ *)
(* C15: provided each external step (parse, logger set-up,            *)
(* marshalling, import, entry-point call) returns, every run of main  *)
(* reaches the terminated state and stays there: main has no loop and *)
(* no retry, so no stage runs more than once on the way.              *)
(* ------------------------------------------------------------------ *)
C15_MainTerminates ==
  /\ [](\A s \in StageNames : Count(s, trace) <= 1)
  /\ <>[]Terminated

C15_Witness ==
  /\ Terminated
  /\ exitStatus = ExitSuccess
  /\ Len(trace) = Len(StageOrder)

=============================================================================
